---- MODULE Spec2Model ----
(***************************************************************************)
(* A model of src/app.py: the resilient fetcher make_request_with_retry,   *)
(* the three extraction strategies and the orchestrator get_youtube_info.  *)
(*                                                                         *)
(* Two specifications share the module.  SpecFetch runs one call of        *)
(* make_request_with_retry attempt by attempt against every upstream       *)
(* behaviour.  Spec runs calls of get_youtube_info strategy by strategy;   *)
(* there the scraping strategies see the fetcher through RetryLoop, the    *)
(* same loop folded over a whole sequence of upstream outcomes.            *)
(***************************************************************************)
EXTENDS Integers, Sequences, FiniteSets, TLC

VARIABLES
    \* ---- make_request_with_retry (one call) ----
    fpc,          \* "idle" | "loop" | "done"
    max_retries,  \* the attempt budget of the call
    attempt,      \* the loop variable of `for attempt in range(max_retries)`
    events,       \* calls to time.sleep and session.get made so far, in order
    fetched,      \* how the call ended: none yet, a returned response, a raise
    \* ---- get_youtube_info ----
    pc,           \* "idle" | "loop" | "done"
    idx,          \* number of entries of `methods` already consumed
    trace,        \* strategies invoked in this call with what each produced
    best_result,  \* the local best_result
    returned,     \* the value returned by the call, once it has returned
    calls,        \* number of calls of get_youtube_info started
    prev,         \* what the previous call returned
    \* ---- one call of a helper function ----
    arg,          \* the arguments and what the network answers during the call
    ret,          \* the value the call returned, once it has returned
    \* ---- extract_video_info (one request) ----
    epc,          \* position in the handler
    request,      \* the JSON body of the request
    info_trace,   \* what each strategy produced inside get_youtube_info
    info,         \* the local info
    video_id,     \* the local video_id
    tags,         \* the local tags
    tags_failed,  \* whether the page fetch of get_youtube_tags failed
    heads,        \* requests.head calls made so far with their outcomes
    thumbnail_url,\* the local thumbnail_url
    http_response,\* the response of the handler, once it has answered
    \* ---- rate_limit_check ----
    request_counts, \* the global request_counts: the kept timestamps of each IP
    clock,        \* the last value time.time() returned
    admitted,     \* for each IP, the times of its calls that returned True
    rate_calls,   \* number of calls of rate_limit_check made
    rate_ret      \* the last call: its ip, its now, its value, the lists before it

fvars == <<fpc, max_retries, attempt, events, fetched>>
ovars == <<pc, idx, trace, best_result, returned, calls, prev>>
xvars == <<arg, ret>>
evars == <<epc, request, info_trace, info, video_id, tags, tags_failed, heads,
           thumbnail_url, http_response>>
rvars == <<request_counts, clock, admitted, rate_calls, rate_ret>>
vars  == <<fpc, max_retries, attempt, events, fetched,
           pc, idx, trace, best_result, returned, calls, prev,
           arg, ret,
           epc, request, info_trace, info, video_id, tags, tags_failed, heads,
           thumbnail_url, http_response,
           request_counts, clock, admitted, rate_calls, rate_ret>>

---------------------------------------------------------------------------
(* Bounds *)

\* largest attempt budget a caller passes
MaxRetries == 3
\* number of successive calls of get_youtube_info
MaxCalls == 2

---------------------------------------------------------------------------
(* Upstream: what one session.get can produce *)

\* the default of the max_retries parameter
DefaultMaxRetries == 3

\* bodies shorter than this are rejected
MinContentLength == 1000

blocking_indicators ==
    {"unusual traffic", "captcha", "blocked", "access denied", "too many requests"}

\* A body is described by the blocking phrase it contains (or "none"),
\* whether that phrase is written in upper case, and its length.
PhraseSamples == {"none", "captcha"}
LengthSamples == {MinContentLength - 1, MinContentLength}

Bodies ==
    {b \in [phrase : PhraseSamples, upper : BOOLEAN, length : LengthSamples] :
        b.phrase = "none" => ~b.upper}

NoBody == [phrase |-> "none", upper |-> FALSE, length |-> 0]

OtherStatuses == {429, 403, 204}

TransportErrors == {"ConnectionError", "Timeout"}

Outcomes ==
    [kind : {"response"}, status : {200}, body : Bodies]
    \cup [kind : {"response"}, status : OtherStatuses, body : {NoBody}]
    \cup [kind : {"error"}, exc : TransportErrors]

\* random.uniform(2, 5): the two ends of the interval
UniformSamples == {2, 5}

---------------------------------------------------------------------------
(* make_request_with_retry *)

\* content.lower()
Lower(body) == [body EXCEPT !.upper = FALSE]

\* `indicator in text`: substring search is case sensitive, and the
\* indicators are written in lower case
Contains(text, indicator) == text.phrase = indicator /\ ~text.upper

IsBlocked_CaseSensitive(content) ==
    \E indicator \in blocking_indicators : Contains(content, indicator)

\* any(indicator in content_lower for indicator in blocking_indicators)
IsBlocked(content) ==
    LET content_lower == Lower(content)
    IN  \E indicator \in blocking_indicators : Contains(content_lower, indicator)

\* Response.raise_for_status(): raises HTTPError for 4xx and 5xx only
RaisesForStatus(status) == status >= 400 /\ status < 600

\* raise Exception(message)
Failure(message) == [type |-> "Exception", message |-> message]

Continue == [kind |-> "continue"]
Raise(e) == [kind |-> "raise", exc |-> e]
Return(response) == [kind |-> "return", response |-> response]

OnRequestException_NeverRaise(e, att, budget) == Continue

\* except requests.exceptions.RequestException as e
OnRequestException(e, att, budget) ==
    IF att = budget - 1 THEN Raise(e) ELSE Continue

\* the sleeps that precede session.get in iteration att; base is the value
\* drawn by random.uniform(2, 5)
Sleeps_BackoffAfterPacing(att, base) ==
    <<[op |-> "sleep", why |-> "pacing"]>>
    \o (IF att > 0
        THEN <<[op |-> "sleep", why |-> "backoff", delay |-> base * (att + 1)]>>
        ELSE <<>>)

Sleeps_Unscaled(att, base) ==
    (IF att > 0
     THEN <<[op |-> "sleep", why |-> "backoff", delay |-> base]>>
     ELSE <<>>)
    \o <<[op |-> "sleep", why |-> "pacing"]>>

Sleeps(att, base) ==
    (IF att > 0
     THEN <<[op |-> "sleep", why |-> "backoff", delay |-> base * (att + 1)]>>
     ELSE <<>>)
    \o <<[op |-> "sleep", why |-> "pacing"]>>

HandleAttempt_ReturnOnLast(out, att, budget) ==
    IF out.kind = "error"
    THEN OnRequestException([type |-> out.exc, attempt |-> att + 1], att, budget)
    ELSE IF out.status = 200
    THEN IF att = budget - 1 THEN Return(out)
         ELSE IF IsBlocked(out.body) \/ out.body.length < MinContentLength
              THEN Continue ELSE Return(out)
    ELSE IF out.status = 429
    THEN IF att = budget - 1
         THEN Raise(Failure("Rate limited after all retries")) ELSE Continue
    ELSE IF RaisesForStatus(out.status)
    THEN OnRequestException([type |-> "HTTPError", status |-> out.status,
                             attempt |-> att + 1], att, budget)
    ELSE Continue

\* one iteration of the loop from session.get on: what the outcome `out`
\* of the request leads to in iteration att of a call with this budget
HandleAttempt(out, att, budget) ==
    IF out.kind = "error"
    THEN OnRequestException([type |-> out.exc, attempt |-> att + 1], att, budget)
    ELSE IF out.status = 200
    THEN IF IsBlocked(out.body)
         THEN IF att = budget - 1
              THEN Raise(Failure("Request appears to be blocked after all retries"))
              ELSE Continue
         ELSE IF out.body.length < MinContentLength
         THEN IF att = budget - 1
              THEN Raise(Failure("Received unusually short response"))
              ELSE Continue
         ELSE Return(out)
    ELSE IF out.status = 429
    THEN IF att = budget - 1
         THEN Raise(Failure("Rate limited after all retries"))
         ELSE Continue
    ELSE IF RaisesForStatus(out.status)
    \* HTTPError is a RequestException: the handler of the loop catches it
    THEN OnRequestException([type |-> "HTTPError", status |-> out.status,
                             attempt |-> att + 1], att, budget)
    \* raise_for_status() returned: the iteration ends and the loop goes on
    ELSE Continue

AllFailed_ReturnsNone == [kind |-> "none"]

\* the statement after the loop
AllFailed == Raise(Failure("All retry attempts failed"))

NotFetched == [kind |-> "none"]

\* the caller enters make_request_with_retry
CallFetch ==
    /\ fpc = "idle"
    /\ \E n \in 1..MaxRetries : max_retries' = n
    /\ attempt' = 0
    /\ events' = <<>>
    /\ fetched' = NotFetched
    /\ fpc' = "loop"
    /\ UNCHANGED ovars
    /\ UNCHANGED <<xvars, evars, rvars>>

\* one iteration of the loop: sleeps, request, classification
Attempt ==
    /\ fpc = "loop"
    /\ attempt < max_retries
    /\ \E out \in Outcomes :
       \E base \in (IF attempt > 0 THEN UniformSamples ELSE {2}) :
          LET r == HandleAttempt(out, attempt, max_retries)
          IN  /\ events' = events \o Sleeps(attempt, base)
                                  \o <<[op |-> "get", out |-> out]>>
              /\ IF r.kind = "continue"
                 THEN /\ attempt' = attempt + 1
                      /\ UNCHANGED <<fetched, fpc>>
                 ELSE /\ fetched' = r
                      /\ fpc' = "done"
                      /\ UNCHANGED attempt
    /\ UNCHANGED max_retries
    /\ UNCHANGED ovars
    /\ UNCHANGED <<xvars, evars, rvars>>

\* range(max_retries) is used up and no iteration returned or raised
Exhausted ==
    /\ fpc = "loop"
    /\ attempt = max_retries
    /\ fetched' = AllFailed
    /\ fpc' = "done"
    /\ UNCHANGED <<max_retries, attempt, events>>
    /\ UNCHANGED ovars
    /\ UNCHANGED <<xvars, evars, rvars>>

\* the whole call as a function of the outcomes of its requests
RECURSIVE RetryLoop(_, _, _)
RetryLoop(att, budget, outs) ==
    IF att >= budget THEN AllFailed
    ELSE LET r == HandleAttempt(outs[att + 1], att, budget)
         IN  IF r.kind = "continue" THEN RetryLoop(att + 1, budget, outs) ELSE r

---------------------------------------------------------------------------
(* Text of the fetched pages *)

\* what a regular expression yields when it does not match
NoMatch == "<no match>"

\* group(1) of a title pattern and of a description pattern
TitleTexts == {"", " ", "Video A", "Video B - YouTube", "YouTube"}
DescTexts  == {"", " ", "Desc A", "Description not found"}

\* str.strip() on the texts above
Strip(s) == IF s = " " THEN "" ELSE IF s = " a" THEN "a" ELSE s

\* raw_title.replace(' - YouTube', '') on the texts above
RemoveSuffix(s) == IF s = "Video B - YouTube" THEN "Video B" ELSE s

\* clean_description on the texts above: they hold no escape sequence, no
\* character beyond Latin-1, one line and fewer than 2000 characters, so the
\* early return and the trimming are the steps that act on them
clean_description(raw_description) ==
    IF raw_description = "" \/ raw_description \in {"Description not found", "Error"}
    THEN raw_description
    ELSE Strip(raw_description)

Min(S) == CHOOSE x \in S : \A y \in S : x <= y

---------------------------------------------------------------------------
(* Extraction strategies *)

NotFound == [title |-> "Title not found", description |-> "Description not found"]

\* replies of the oEmbed endpoint to requests.get
OEmbedTitles == {"Video A", "Video B"}
OEmbedReplies ==
    [kind : {"json"}, status : {200}, title : OEmbedTitles \cup {NoMatch}]
    \cup {[kind |-> "text", status |-> 200],
          [kind |-> "text", status |-> 404],
          [kind |-> "error"]}

get_youtube_info_oembed(reply) ==
    IF reply.kind = "error" THEN NotFound
    ELSE IF reply.status = 200
    THEN IF reply.kind = "json"
         THEN [title |-> IF reply.title = NoMatch
                         THEN "Title not found" ELSE reply.title,
               description |-> "Description not available from oEmbed"]
         \* response.json() raises, the handler logs, the final return follows
         ELSE NotFound
    ELSE NotFound

\* how make_request_with_retry(url) can end with the default budget
FetchResults ==
    {RetryLoop(0, DefaultMaxRetries, outs) :
        outs \in [1..DefaultMaxRetries -> Outcomes]}

FetchKinds == {r.kind : r \in FetchResults}

\* the loop over title_patterns of the mobile strategy; matches[i] is
\* group(1) of pattern i or NoMatch
MobileTitle(matches) ==
    LET ok == {i \in DOMAIN matches :
                 /\ matches[i] # NoMatch
                 /\ Strip(clean_description(RemoveSuffix(matches[i]))) # ""}
    IN  IF ok = {} THEN "Title not found"
        ELSE clean_description(RemoveSuffix(matches[Min(ok)]))

\* the loops over desc_patterns of both scraping strategies
PageDescription(matches) ==
    LET ok == {i \in DOMAIN matches :
                 /\ matches[i] # NoMatch
                 /\ Strip(clean_description(matches[i])) # ""}
    IN  IF ok = {} THEN "Description not found"
        ELSE clean_description(matches[Min(ok)])

\* the loop over title_patterns of the standard strategy
StandardTitle(matches) ==
    LET ok == {i \in DOMAIN matches :
                 /\ matches[i] # NoMatch
                 /\ Strip(clean_description(matches[i])) # ""
                 /\ clean_description(matches[i]) # "YouTube"}
    IN  IF ok = {} THEN "Title not found"
        ELSE clean_description(matches[Min(ok)])

\* number of entries of title_patterns / desc_patterns
MobilePatterns == 3
StandardPatterns == 5

MobileTitleSet ==
    {MobileTitle(m) : m \in [1..MobilePatterns -> TitleTexts \cup {NoMatch}]}
MobileDescSet ==
    {PageDescription(m) : m \in [1..MobilePatterns -> DescTexts \cup {NoMatch}]}
StandardTitleSet ==
    {StandardTitle(m) : m \in [1..StandardPatterns -> TitleTexts \cup {NoMatch}]}
StandardDescSet ==
    {PageDescription(m) : m \in [1..StandardPatterns -> DescTexts \cup {NoMatch}]}

\* fetch: the kind of end of make_request_with_retry; title, description:
\* what the pattern loops extract from the page when it was returned
get_youtube_info_mobile(fetch, title, description) ==
    IF fetch = "return"
    THEN [title |-> title, description |-> description]
    ELSE NotFound

get_youtube_info_standard(fetch, title, description) ==
    IF fetch = "return"
    THEN [title |-> title, description |-> description]
    ELSE NotFound

---------------------------------------------------------------------------
(* get_youtube_info *)

methods_MobileFirst == <<"Mobile", "oEmbed", "Standard">>

\* the names of the list `methods`, in its order
methods == <<"oEmbed", "Mobile", "Standard">>

InitialBest_NotFound == NotFound

\* best_result before the loop
InitialBest ==
    [title |-> "All methods failed", description |-> "Could not extract information"]

TitleFailures == {"Title not found", "Error", "All methods failed"}
DescFailures_NoOEmbed == {"Description not found", "Error"}

DescFailures  == {"Description not found", "Error",
                  "Description not available from oEmbed"}

ProcessResult_KeepLast(best, result) ==
    LET title_success == result.title \notin TitleFailures
        desc_success  == result.description \notin DescFailures
    IN  IF title_success /\ desc_success
        THEN [return |-> TRUE, value |-> result, best_result |-> best]
        ELSE [return |-> FALSE, best_result |-> result]

ProcessResult_NoEarlyReturn(best, result) ==
    LET title_success == result.title \notin TitleFailures
    IN  IF title_success
        THEN [return |-> FALSE, best_result |-> result]
        ELSE [return |-> FALSE, best_result |-> best]

\* the body of the loop after `result = method()`
ProcessResult(best, result) ==
    LET title_success == result.title \notin TitleFailures
        desc_success  == result.description \notin DescFailures
    IN  IF title_success /\ desc_success
        THEN [return |-> TRUE, value |-> result, best_result |-> best]
        ELSE IF title_success
        THEN [return |-> FALSE, best_result |-> result]
        ELSE [return |-> FALSE, best_result |-> best]

NotReturned == [kind |-> "none"]
Returned(v) == [kind |-> "return", value |-> v]

\* an exception that leaves the strategy and reaches the handler of the loop
Raised == [kind |-> "raised"]
Result(r) == [kind |-> "result", result |-> r]

\* a request handler calls get_youtube_info(url)
StartCall ==
    /\ pc \in {"idle", "done"}
    /\ calls < MaxCalls
    /\ calls' = calls + 1
    /\ prev' = returned
    /\ returned' = NotReturned
    /\ best_result' = InitialBest
    /\ idx' = 0
    /\ trace' = <<>>
    /\ pc' = "loop"
    /\ UNCHANGED fvars
    /\ UNCHANGED <<xvars, evars, rvars>>

\* one iteration of `for method_name, method in methods` in which the
\* strategy named name ends with outcome o
Iterate(name, o) ==
    /\ trace' = Append(trace, [method |-> name, outcome |-> o])
    /\ idx' = idx + 1
    /\ IF o.kind = "raised"
       THEN UNCHANGED <<best_result, returned, pc>>
       ELSE LET p == ProcessResult(best_result, o.result)
            IN  IF p.return
                THEN /\ returned' = Returned(p.value)
                     /\ pc' = "done"
                     /\ UNCHANGED best_result
                ELSE /\ best_result' = p.best_result
                     /\ UNCHANGED <<returned, pc>>
    /\ UNCHANGED <<calls, prev>>
    /\ UNCHANGED fvars
    /\ UNCHANGED <<xvars, evars, rvars>>

InvokeOEmbed ==
    /\ pc = "loop"
    /\ idx < Len(methods)
    /\ methods[idx + 1] = "oEmbed"
    /\ \E o \in {Result(get_youtube_info_oembed(reply)) : reply \in OEmbedReplies}
                \cup {Raised} :
          Iterate("oEmbed", o)

InvokeMobile ==
    /\ pc = "loop"
    /\ idx < Len(methods)
    /\ methods[idx + 1] = "Mobile"
    /\ \E o \in {Result(get_youtube_info_mobile(f, t, d)) :
                    f \in FetchKinds, t \in MobileTitleSet, d \in MobileDescSet}
                \cup {Raised} :
          Iterate("Mobile", o)

InvokeStandard ==
    /\ pc = "loop"
    /\ idx < Len(methods)
    /\ methods[idx + 1] = "Standard"
    /\ \E o \in {Result(get_youtube_info_standard(f, t, d)) :
                    f \in FetchKinds, t \in StandardTitleSet, d \in StandardDescSet}
                \cup {Raised} :
          Iterate("Standard", o)

\* the loop ran through every method: return best_result
FinishLoop ==
    /\ pc = "loop"
    /\ idx = Len(methods)
    /\ returned' = Returned(best_result)
    /\ pc' = "done"
    /\ UNCHANGED <<idx, trace, best_result, calls, prev>>
    /\ UNCHANGED fvars
    /\ UNCHANGED <<xvars, evars, rvars>>

---------------------------------------------------------------------------
(* Specifications *)

\* no helper call and no request under way
NoArg == [fn |-> "none"]
NotCalled == [kind |-> "none"]

\* None, and a string value
None == [none |-> TRUE]
Str(text) == [none |-> FALSE, text |-> text]

\* the callers of the service
IPs == {"10.0.0.1", "10.0.0.2"}

\* request_counts = defaultdict(list), and nothing called yet
InitRate ==
    /\ request_counts = [ip \in IPs |-> <<>>]
    /\ clock = 0
    /\ admitted = [ip \in IPs |-> <<>>]
    /\ rate_calls = 0
    /\ rate_ret = NotCalled

InitExtract ==
    /\ epc = "idle"
    /\ request = [json |-> FALSE]
    /\ info_trace = <<>>
    /\ info = NotFound
    /\ video_id = None
    /\ tags = <<>>
    /\ tags_failed = FALSE
    /\ heads = <<>>
    /\ thumbnail_url = None
    /\ http_response = NotCalled

Init ==
    /\ fpc = "idle"
    /\ max_retries = DefaultMaxRetries
    /\ attempt = 0
    /\ events = <<>>
    /\ fetched = NotFetched
    /\ pc = "idle"
    /\ idx = 0
    /\ trace = <<>>
    /\ best_result = InitialBest
    /\ returned = NotReturned
    /\ calls = 0
    /\ prev = NotReturned
    /\ arg = NoArg
    /\ ret = NotCalled
    /\ InitExtract
    /\ InitRate

Next ==
    \/ StartCall
    \/ InvokeOEmbed
    \/ InvokeMobile
    \/ InvokeStandard
    \/ FinishLoop

Spec == Init /\ [][Next]_vars

NextFetch ==
    \/ CallFetch
    \/ Attempt
    \/ Exhausted

SpecFetch == Init /\ [][NextFetch]_vars

\* every sleep is finite and session.get has a timeout: an iteration that
\* has begun ends, and so does the statement after the loop
SpecFetchLive ==
    Init /\ [][NextFetch]_vars /\ WF_vars(Attempt) /\ WF_vars(Exhausted)

---------------------------------------------------------------------------
(* Properties of get_youtube_info, checked under Spec *)

OrderOfStrategies == <<"oEmbed", "Mobile", "Standard">>

HasTitle(o) == o.kind = "result" /\ o.result.title \notin TitleFailures
HasDescription(o) == o.kind = "result" /\ o.result.description \notin DescFailures

IsFull(o) == HasTitle(o) /\ HasDescription(o)
IsTitleOnly(o) == HasTitle(o) /\ ~HasDescription(o)
IsDescOnly(o) == HasDescription(o) /\ ~HasTitle(o)
\* the strategy raised, or returned sentinels in both fields
IsNoSignal(o) ==
    \/ o.kind = "raised"
    \/ /\ o.kind = "result"
       /\ o.result.title \in TitleFailures
       /\ o.result.description \in DescFailures

\* C1: as soon as a strategy returns a full success (title and description
\* both non-sentinel) the call has returned exactly that result, and that
\* strategy is the last one invoked in the call.
C1_ReturnOnFirstFullSuccess ==
    \A k \in 1..Len(trace) :
        IsFull(trace[k].outcome) =>
            /\ k = Len(trace)
            /\ pc = "done"
            /\ returned = Returned(trace[k].outcome.result)

\* the Mobile strategy succeeded in full after oEmbed; Standard never ran
C1_Witness ==
    /\ pc = "done"
    /\ Len(trace) = 2
    /\ IsFull(trace[2].outcome)
    /\ returned = Returned(trace[2].outcome.result)

\* C2: when one strategy yields a title-only result and a later one a
\* description-only result, the returned record has a non-sentinel title
\* and a non-sentinel description.
C2_MergesPartials ==
    (/\ pc = "done"
     /\ \E j, k \in 1..Len(trace) :
            /\ j < k
            /\ IsTitleOnly(trace[j].outcome)
            /\ IsDescOnly(trace[k].outcome))
    => /\ returned.value.title \notin TitleFailures
       /\ returned.value.description \notin DescFailures

\* C3: the call always ends by returning a record; when every strategy
\* raised or yielded no signal, the record is the "All methods failed"
\* title with the "Could not extract information" description.
C3_AllFailedRecord ==
    pc = "done" =>
        /\ returned.kind = "return"
        /\ DOMAIN returned.value = {"title", "description"}
        /\ (\A k \in 1..Len(trace) : IsNoSignal(trace[k].outcome)) =>
               /\ returned.value.title = "All methods failed"
               /\ returned.value.description = "Could not extract information"

\* all three strategies ran, one raised, one returned the sentinels
C3_Witness ==
    /\ pc = "done"
    /\ Len(trace) = 3
    /\ \A k \in 1..3 : IsNoSignal(trace[k].outcome)
    /\ \E k \in 1..3 : trace[k].outcome.kind = "raised"
    /\ \E k \in 1..3 : trace[k].outcome.kind = "result"
    /\ returned.value.title = "All methods failed"

\* C4: when an earlier strategy yielded a title-only result and a later
\* strategy supplies a non-sentinel description, the returned record is
\* the title of an earlier title-only result together with the description
\* of a later strategy.
C4_FieldLevelMerge ==
    (/\ pc = "done"
     /\ \E j, k \in 1..Len(trace) :
            /\ j < k
            /\ IsTitleOnly(trace[j].outcome)
            /\ HasDescription(trace[k].outcome))
    => \E j, k \in 1..Len(trace) :
            /\ j < k
            /\ IsTitleOnly(trace[j].outcome)
            /\ HasDescription(trace[k].outcome)
            /\ returned.value.title = trace[j].outcome.result.title
            /\ returned.value.description = trace[k].outcome.result.description

\* C5: in every call, whatever earlier calls returned, the strategies
\* invoked so far are a prefix of oEmbed, Mobile, Standard, so each is
\* invoked at most once.
C5_FixedOrder ==
    /\ Len(trace) <= Len(OrderOfStrategies)
    /\ \A k \in 1..Len(trace) : trace[k].method = OrderOfStrategies[k]
    /\ idx = Len(trace)

\* a second call runs all three strategies after a first call that
\* returned early on a full success
C5_Witness ==
    /\ calls = 2
    /\ prev.kind = "return"
    /\ prev.value.title \notin TitleFailures
    /\ prev.value.description \notin DescFailures
    /\ Len(trace) = 3
    /\ trace[3].method = "Standard"

---------------------------------------------------------------------------
(* Properties of make_request_with_retry, checked under SpecFetch *)

\* the requests issued so far
Gets == SelectSeq(events, LAMBDA e : e.op = "get")

IsResponse(o) == o.kind = "response"
\* HTTP 200 with a blocking phrase in the body, in either case
BlockedOut(o) ==
    IsResponse(o) /\ o.status = 200 /\ o.body.phrase \in blocking_indicators
\* HTTP 200, no blocking phrase, at least 1000 characters
CleanOut(o) ==
    /\ IsResponse(o) /\ o.status = 200
    /\ o.body.phrase \notin blocking_indicators
    /\ o.body.length >= 1000

\* C6: with budget N, if attempts 1..k-1 were answered by a blocking page
\* and attempt k (k <= N) by a clean page of 1000 characters or more, the
\* call returns the response of attempt k; after fewer than N blocking
\* pages the call is still running; after N of them it has raised the
\* "blocked after all retries" failure, having made exactly N attempts.
C6_RetryOnBlocking ==
    LET g == Gets
        n == Len(g)
    IN  /\ n <= max_retries
        /\ (/\ n >= 1
            /\ \A i \in 1..(n - 1) : BlockedOut(g[i].out)
            /\ CleanOut(g[n].out))
           => fetched = Return(g[n].out)
        /\ (/\ n >= 1
            /\ \A i \in 1..n : BlockedOut(g[i].out))
           => IF n < max_retries
              THEN fetched = NotFetched /\ fpc = "loop" /\ attempt = n
              ELSE fetched =
                     Raise(Failure("Request appears to be blocked after all retries"))

\* two blocking pages, one of them in upper case, then a clean page on the
\* last attempt of a budget of three
C6_Witness ==
    /\ max_retries = 3
    /\ Len(Gets) = 3
    /\ BlockedOut(Gets[1].out) /\ Gets[1].out.body.upper
    /\ BlockedOut(Gets[2].out)
    /\ CleanOut(Gets[3].out)
    /\ fetched = Return(Gets[3].out)

\* C7: an attempt answered by an error status other than 429 (403, 404,
\* 500, ...) is the last attempt of the call: no request follows it, and the
\* call ends by raising.
C7_HardFailureNoRetry ==
    LET g == Gets
    IN  \A i \in 1..Len(g) :
            (/\ IsResponse(g[i].out)
             /\ g[i].out.status \notin {200, 429}
             /\ g[i].out.status >= 400)
            => /\ i = Len(g)
               /\ fpc = "done" => fetched.kind = "raise"

\* C8: a response is returned only if it has status 200, no blocking
\* phrase in either case and at least 1000 characters; it is the response
\* of the last request made.
C8_OnlyCleanReturned ==
    fetched.kind = "return" =>
        /\ fetched.response.kind = "response"
        /\ fetched.response.status = 200
        /\ fetched.response.body.phrase \notin blocking_indicators
        /\ fetched.response.body.length >= 1000
        /\ Len(Gets) >= 1
        /\ fetched.response = Gets[Len(Gets)].out

\* soft failures on every attempt but the last, which is returned
C8_Witness ==
    /\ fetched.kind = "return"
    /\ max_retries >= 2
    /\ Len(Gets) = max_retries
    /\ \A i \in 1..(Len(Gets) - 1) :
          /\ IsResponse(Gets[i].out)
          /\ Gets[i].out.status = 200
          /\ ~CleanOut(Gets[i].out)

\* C9: with budget N, after fewer than N attempts that all failed with a
\* transport error the call is still running and will attempt again; after
\* N of them the call has raised the error of the N-th attempt.
C9_TransportErrors ==
    LET g == Gets
        n == Len(g)
    IN  (/\ n >= 1
         /\ \A i \in 1..n : g[i].out.kind = "error")
        => IF n < max_retries
           THEN fetched = NotFetched /\ fpc = "loop" /\ attempt = n
           ELSE /\ n = max_retries
                /\ fetched = Raise([type |-> g[n].out.exc, attempt |-> n])

\* three transport errors in a row, the last one of another type than
\* the first, and the last one is raised
C9_Witness ==
    /\ max_retries = 3
    /\ Len(Gets) = 3
    /\ \A i \in 1..3 : Gets[i].out.kind = "error"
    /\ Gets[1].out.exc # Gets[3].out.exc
    /\ fetched = Raise([type |-> Gets[3].out.exc, attempt |-> 3])

IsPacing(e) == e.op = "sleep" /\ e.why = "pacing"
IsBackoff(e) == e.op = "sleep" /\ e.why = "backoff"

\* C10: every request is directly preceded by a pacing sleep; the first
\* request is preceded by nothing else, so by no backoff sleep; every later
\* request has a backoff sleep directly before its pacing sleep and after
\* the request before it.
C10_SleepsBeforeRequests ==
    \A i \in 1..Len(events) :
        events[i].op = "get" =>
            /\ i > 1
            /\ IsPacing(events[i - 1])
            /\ IF \A j \in 1..(i - 1) : events[j].op # "get"
               THEN i = 2
               ELSE /\ i > 3
                    /\ IsBackoff(events[i - 2])
                    /\ events[i - 3].op = "get"

\* three requests were made: two of them were retries
C10_Witness ==
    /\ Len(Gets) = 3
    /\ Len(events) = 8
    /\ IsBackoff(events[3])
    /\ IsBackoff(events[6])

\* the backoff sleeps of the call, in order
Backoffs == SelectSeq(events, LAMBDA e : IsBackoff(e))

---------------------------------------------------------------------------
(* get_youtube_tags *)

\* the budget get_youtube_tags passes to make_request_with_retry
TagsMaxRetries == 2

\* the cap on the returned list
TagCap == 20

\* longest list of quoted tokens inside one matched array
MaxTokens == 2

\* the quoted tokens of the page
TagTokens == {"a", " a", "b", " "}

TokenLists == UNION {[1..n -> TagTokens] : n \in 0..MaxTokens}

\* number of entries of tag_patterns: keywords, tags, hashtags
TagPatterns == 3

\* how make_request_with_retry(video_url, headers, max_retries=2) can end
TagFetchResults ==
    {RetryLoop(0, TagsMaxRetries, outs) : outs \in [1..TagsMaxRetries -> Outcomes]}

TagFetchKinds == {r.kind : r \in TagFetchResults}

\* what a pattern of tag_patterns yields when the page has no such array
NoArray == <<NoMatch>>

\* all_tags after the loop over tag_patterns; matches[i] is the list of
\* tokens found in the array matched by pattern i, or NoArray
RECURSIVE AllTags(_, _)
AllTags(matches, i) ==
    IF i > Len(matches) THEN <<>>
    ELSE (IF matches[i] = NoArray THEN <<>> ELSE matches[i])
         \o AllTags(matches, i + 1)

\* the loop `for tag in all_tags` from position i on
RECURSIVE Dedupe(_, _, _, _)
Dedupe(all_tags, i, seen, unique_tags) ==
    IF i > Len(all_tags) THEN unique_tags
    ELSE LET tag == all_tags[i]
         IN  IF tag \notin seen /\ Len(Strip(tag)) > 0
             THEN Dedupe(all_tags, i + 1, seen \cup {tag},
                         Append(unique_tags, Strip(tag)))
             ELSE Dedupe(all_tags, i + 1, seen, unique_tags)

\* unique_tags[:20]
Cap(s) == SubSeq(s, 1, IF Len(s) < TagCap THEN Len(s) ELSE TagCap)

\* fetch: how make_request_with_retry ended; matches: what the patterns
\* find in the page it returned
get_youtube_tags(fetch, matches) ==
    IF fetch = "return"
    THEN Cap(Dedupe(AllTags(matches, 1), 1, {}, <<>>))
    ELSE <<>>

TagArgs ==
    [fn : {"get_youtube_tags"}, fetch : TagFetchKinds,
     matches : [1..TagPatterns -> TokenLists \cup {NoArray}]]

InitTags ==
    /\ fpc = "idle" /\ max_retries = DefaultMaxRetries /\ attempt = 0
    /\ events = <<>> /\ fetched = NotFetched
    /\ pc = "idle" /\ idx = 0 /\ trace = <<>> /\ best_result = InitialBest
    /\ returned = NotReturned /\ calls = 0 /\ prev = NotReturned
    /\ arg \in TagArgs
    /\ ret = NotCalled
    /\ InitExtract
    /\ InitRate

CallTags ==
    /\ arg.fn = "get_youtube_tags"
    /\ ret = NotCalled
    /\ ret' = [kind |-> "return",
               value |-> get_youtube_tags(arg.fetch, arg.matches)]
    /\ UNCHANGED <<arg, fvars, ovars, evars, rvars>>

SpecTags == InitTags /\ [][CallTags]_vars

\* the tokens of the matched arrays, concatenated
TagInput == AllTags(arg.matches, 1)

\* first position of tag x among the trimmed tokens
FirstSeen(x) ==
    CHOOSE p \in 1..Len(TagInput) :
        /\ Strip(TagInput[p]) = x
        /\ \A q \in 1..(p - 1) : Strip(TagInput[q]) # x

\* C12: the list returned by get_youtube_tags has no duplicate entry, no
\* entry that is empty after trimming, at most 20 entries, and its entries
\* are in the order of their first occurrence among the tokens of the
\* matched keywords, tags and hashtags arrays.
C12_TagsUniqueInOrder ==
    (ret.kind = "return" /\ arg.fn = "get_youtube_tags") =>
        LET r == ret.value
        IN  /\ \A i, j \in 1..Len(r) : i # j => r[i] # r[j]
            /\ \A i \in 1..Len(r) : Strip(r[i]) # ""
            /\ Len(r) <= 20
            /\ \A i \in 1..Len(r) : \E p \in 1..Len(TagInput) : Strip(TagInput[p]) = r[i]
            /\ \A i, j \in 1..Len(r) : i < j => FirstSeen(r[i]) < FirstSeen(r[j])

---------------------------------------------------------------------------
(* get_video_id_from_url *)

\* A URL is scheme://host/path?query.  Its path is the list of its segments
\* (the text between slashes), its query the list of its key=value pairs.
\* A piece of text cut out of the path is the list of the segments it
\* spans, read as joined by "/".

\* longest path and longest query
MaxSegments == 3
MaxParams == 2

Hosts == {"youtu.be", "YOUTU.BE", "www.youtube.com", "youtube.com", "example.com"}
Segments == {"ABC", "ABC&t=5", "watch", "embed", "v"}
Params == {[key |-> "v", value |-> "ABC"], [key |-> "v", value |-> "ABC?t=5"],
           [key |-> "v", value |-> ""], [key |-> "t", value |-> "5"]}

Urls ==
    [host : Hosts,
     path : UNION {[1..n -> Segments] : n \in 0..MaxSegments},
     query : UNION {[1..n -> Params] : n \in 0..MaxParams}]

\* urlparse(...).hostname is lower case
Hostname(url) == IF url.host = "YOUTU.BE" THEN "youtu.be" ELSE url.host

\* whether s holds "&" or "?", and the part of s before it
HasMark(s) == s \in {"ABC&t=5", "ABC?t=5"}
BeforeMark(s) == IF HasMark(s) THEN "ABC" ELSE s

\* text.split("&")[0].split("?")[0]
CutAtMark(text) ==
    LET marked == {i \in 1..Len(text) : HasMark(text[i])}
    IN  IF marked = {} THEN text
        ELSE SubSeq(text, 1, Min(marked) - 1) \o <<BeforeMark(text[Min(marked)])>>

\* parse_qs(parsed.query).get("v", [None])[0]; parse_qs drops blank values
QueryV(query) ==
    LET vs == {i \in 1..Len(query) : query[i].key = "v" /\ query[i].value # ""}
    IN  IF vs = {} THEN None ELSE Str(<<query[Min(vs)].value>>)

\* "/marker/" in path: a segment equal to marker with a segment after it
HasMarker(path, marker) == \E i \in 1..(Len(path) - 1) : path[i] = marker

\* path.split("/marker/")[1]: what lies between the first "/marker/" and
\* the next one that does not share a slash with it
AfterMarker(path, marker) ==
    LET i == Min({k \in 1..(Len(path) - 1) : path[k] = marker})
        later == {j \in (i + 2)..(Len(path) - 1) : path[j] = marker}
    IN  SubSeq(path, i + 1, IF later = {} THEN Len(path) ELSE Min(later) - 1)

\* "/watch" in parsed.path
HasWatch(path) == \E i \in 1..Len(path) : path[i] = "watch"

get_video_id_from_url(video_url) ==
    LET hostname == Hostname(video_url)
        path == video_url.path
        vid ==
            IF hostname = "youtu.be" THEN Str(path)
            ELSE IF hostname \in {"www.youtube.com", "youtube.com"}
            THEN IF HasWatch(path) THEN QueryV(video_url.query)
                 ELSE IF HasMarker(path, "embed") THEN Str(AfterMarker(path, "embed"))
                 ELSE IF HasMarker(path, "v") THEN Str(AfterMarker(path, "v"))
                 ELSE None
            ELSE None
    IN  \* `if video_id:` is false for None and for the empty string
        IF vid = None \/ vid.text = <<>>
        THEN vid
        ELSE Str(CutAtMark(vid.text))

InitUrl ==
    /\ fpc = "idle" /\ max_retries = DefaultMaxRetries /\ attempt = 0
    /\ events = <<>> /\ fetched = NotFetched
    /\ pc = "idle" /\ idx = 0 /\ trace = <<>> /\ best_result = InitialBest
    /\ returned = NotReturned /\ calls = 0 /\ prev = NotReturned
    /\ arg \in [fn : {"get_video_id_from_url"}, url : Urls]
    /\ ret = NotCalled
    /\ InitExtract
    /\ InitRate

CallUrl ==
    /\ arg.fn = "get_video_id_from_url"
    /\ ret = NotCalled
    /\ ret' = [kind |-> "return", value |-> get_video_id_from_url(arg.url)]
    /\ UNCHANGED <<arg, fvars, ovars, evars, rvars>>

SpecUrl == InitUrl /\ [][CallUrl]_vars

\* the recognized shapes, and the identifier each one carries
IdSegments == {"ABC", "ABC&t=5"}
IsShortLink(url) ==
    /\ Hostname(url) = "youtu.be"
    /\ Len(url.path) >= 1 /\ url.path[1] \in IdSegments
IsWatch(url) ==
    /\ Hostname(url) \in {"www.youtube.com", "youtube.com"}
    /\ url.path = <<"watch">>
    /\ \E i \in 1..Len(url.query) : url.query[i].key = "v" /\ url.query[i].value # ""
IsEmbedOrV(url) ==
    /\ Hostname(url) \in {"www.youtube.com", "youtube.com"}
    /\ Len(url.path) >= 2
    /\ url.path[1] \in {"embed", "v"} /\ url.path[2] \in IdSegments
IsOtherHost(url) ==
    Hostname(url) \notin {"youtu.be", "www.youtube.com", "youtube.com"}

\* C15: for a short link the result is the first path segment, for a
\* /watch URL the value of v, for an /embed/ or /v/ URL the segment after
\* the marker, each cut at the first "&" or "?"; for a URL on another host
\* the result is absent.
C15_CorrectIdentifier ==
    (ret.kind = "return" /\ arg.fn = "get_video_id_from_url") =>
        LET url == arg.url
        IN  /\ IsShortLink(url) => ret.value = Str(<<BeforeMark(url.path[1])>>)
            /\ IsWatch(url) => ret.value = Str(<<"ABC">>)
            /\ IsEmbedOrV(url) => ret.value = Str(<<BeforeMark(url.path[2])>>)
            /\ IsOtherHost(url) => ret.value = None

---------------------------------------------------------------------------
(* clean_description on whole texts *)

\* Here a text is the list of its runs: [c |-> character, n |-> how many
\* times it is repeated], neighbouring runs holding different characters.
\* The texts hold letters, blanks, newlines and full stops: no backslash,
\* nothing beyond ASCII, so decoding and re-encoding leave them unchanged.

\* the length cap and the length of the marker "..."
LengthCap == 2000
EllipsisLength == 3

\* longest list of runs
MaxRuns == 3

Characters == {"a", " ", "\n", "."}
RunLengths == {1, 3, LengthCap - 2, LengthCap + 100}

Texts ==
    {t \in UNION {[1..k -> [c : Characters, n : RunLengths]] : k \in 0..MaxRuns} :
        \A i \in 1..(Len(t) - 1) : t[i].c # t[i + 1].c}

RECURSIVE TextLen(_)
TextLen(t) == IF t = <<>> THEN 0 ELSE Head(t).n + TextLen(Tail(t))

\* concatenation of a text and a run
AddRun(t, r) ==
    IF r.n = 0 THEN t
    ELSE IF t # <<>> /\ t[Len(t)].c = r.c
    THEN [t EXCEPT ![Len(t)].n = t[Len(t)].n + r.n]
    ELSE Append(t, r)

RECURSIVE Merge(_, _)
Merge(acc, t) == IF t = <<>> THEN acc ELSE Merge(AddRun(acc, Head(t)), Tail(t))

\* split('\n'), strip every line, join with '\n': the blanks at either end
\* of a line go
StripLines(t) ==
    LET stays(i) ==
            \/ t[i].c # " "
            \/ /\ i > 1 /\ t[i - 1].c # "\n"
               /\ i < Len(t) /\ t[i + 1].c # "\n"
        kept == SelectSeq([i \in 1..Len(t) |-> [run |-> t[i], keep |-> stays(i)]],
                          LAMBDA x : x.keep)
    IN  Merge(<<>>, [i \in 1..Len(kept) |-> kept[i].run])

\* re.sub(r'\n{3,}', '\n\n', description)
CollapseBlankLines(t) ==
    [i \in 1..Len(t) |-> IF t[i].c = "\n" /\ t[i].n >= 3 THEN [t[i] EXCEPT !.n = 2] ELSE t[i]]

\* description[:k]
RECURSIVE Take(_, _)
Take(t, k) ==
    IF t = <<>> \/ k = 0 THEN <<>>
    ELSE IF Head(t).n <= k THEN <<Head(t)>> \o Take(Tail(t), k - Head(t).n)
    ELSE <<[Head(t) EXCEPT !.n = k]>>

Truncate_NoCap(t) == t

\* if len(description) > 2000: description = description[:2000] + "..."
Truncate(t) ==
    IF TextLen(t) > LengthCap
    THEN AddRun(Take(t, LengthCap), [c |-> ".", n |-> EllipsisLength])
    ELSE t

IsWhitespace(c) == c \in {" ", "\n"}

\* description.strip()
RECURSIVE StripLeft(_)
StripLeft(t) ==
    IF t # <<>> /\ IsWhitespace(Head(t).c) THEN StripLeft(Tail(t)) ELSE t
RECURSIVE StripRight(_)
StripRight(t) ==
    IF t # <<>> /\ IsWhitespace(t[Len(t)].c)
    THEN StripRight(SubSeq(t, 1, Len(t) - 1)) ELSE t
StripText(t) == StripRight(StripLeft(t))

\* clean_description on the texts above
clean_description_text(raw_description) ==
    IF raw_description = <<>> THEN raw_description
    ELSE StripText(Truncate(CollapseBlankLines(StripLines(raw_description))))

InitClean ==
    /\ fpc = "idle" /\ max_retries = DefaultMaxRetries /\ attempt = 0
    /\ events = <<>> /\ fetched = NotFetched
    /\ pc = "idle" /\ idx = 0 /\ trace = <<>> /\ best_result = InitialBest
    /\ returned = NotReturned /\ calls = 0 /\ prev = NotReturned
    /\ arg \in [fn : {"clean_description"}, text : Texts]
    /\ ret = NotCalled
    /\ InitExtract
    /\ InitRate

CallClean ==
    /\ arg.fn = "clean_description"
    /\ ret = NotCalled
    /\ ret' = [kind |-> "return", value |-> clean_description_text(arg.text)]
    /\ UNCHANGED <<arg, fvars, ovars, evars, rvars>>

SpecClean == InitClean /\ [][CallClean]_vars

\* C16: cleaning the result of clean_description once more changes nothing.
C16_Idempotent ==
    (ret.kind = "return" /\ arg.fn = "clean_description") =>
        clean_description_text(ret.value) = ret.value

\* C17: the result has at most 2000 + 3 characters, and a result of more
\* than 2000 characters ends with the marker "...".
C17_LengthBound ==
    (ret.kind = "return" /\ arg.fn = "clean_description") =>
        /\ TextLen(ret.value) <= 2000 + 3
        /\ TextLen(ret.value) > 2000 =>
              /\ ret.value[Len(ret.value)].c = "."
              /\ ret.value[Len(ret.value)].n >= 3

\* a text over the cap was cut and carries the marker
C17_Witness ==
    /\ ret.kind = "return" /\ arg.fn = "clean_description"
    /\ TextLen(arg.text) > 2000
    /\ TextLen(ret.value) = 2003

---------------------------------------------------------------------------
(* get_youtube_info_standard on its own *)

\* outs: what the server answers to each request of make_request_with_retry;
\* title, description: what the pattern loops find in a returned page
StandardArgs ==
    [fn : {"get_youtube_info_standard"},
     outs : [1..DefaultMaxRetries -> Outcomes],
     title : StandardTitleSet,
     description : StandardDescSet]

\* response = make_request_with_retry(url)
StandardFetch(a) == RetryLoop(0, DefaultMaxRetries, a.outs)

InitStandard ==
    /\ fpc = "idle" /\ max_retries = DefaultMaxRetries /\ attempt = 0
    /\ events = <<>> /\ fetched = NotFetched
    /\ pc = "idle" /\ idx = 0 /\ trace = <<>> /\ best_result = InitialBest
    /\ returned = NotReturned /\ calls = 0 /\ prev = NotReturned
    /\ arg \in StandardArgs
    /\ ret = NotCalled
    /\ InitExtract
    /\ InitRate

CallStandard ==
    /\ arg.fn = "get_youtube_info_standard"
    /\ ret = NotCalled
    /\ ret' = [kind |-> "return",
               value |-> get_youtube_info_standard(StandardFetch(arg).kind,
                                                   arg.title, arg.description)]
    /\ UNCHANGED <<arg, fvars, ovars, evars, rvars>>

SpecStandard == InitStandard /\ [][CallStandard]_vars

\* the fetched page was rejected as blocked or as too short
PageRejected(a) ==
    /\ StandardFetch(a).kind = "raise"
    /\ StandardFetch(a).exc \in
          {Failure("Request appears to be blocked after all retries"),
           Failure("Received unusually short response")}

\* C18: when the page is rejected as too short or as blocked, the strategy
\* does not end by returning the record of the two 'not found' sentinels,
\* which is what it returns for a clean page that matches no pattern.
C18_RejectionDistinguishable ==
    (ret.kind = "return" /\ arg.fn = "get_youtube_info_standard"
        /\ PageRejected(arg))
    => ret.value # NotFound

---------------------------------------------------------------------------
(* More properties of get_youtube_info, checked under Spec *)

\* C19: whatever oEmbed returns, the call does not return after invoking
\* oEmbed alone: after the first strategy the loop is still running, the
\* description it was handed is one of the two oEmbed placeholders, and a
\* call that has returned has invoked Mobile as its second strategy.
C19_OEmbedNeverFull ==
    /\ Len(trace) = 1 =>
          /\ trace[1].method = "oEmbed"
          /\ pc = "loop" /\ returned = NotReturned
          /\ trace[1].outcome.kind = "result" =>
                trace[1].outcome.result.description \in
                    {"Description not available from oEmbed", "Description not found"}
    /\ pc = "done" => (Len(trace) >= 2 /\ trace[2].method = "Mobile")

\* oEmbed delivered a title and Mobile was invoked after it
C19_Witness ==
    /\ Len(trace) = 2
    /\ trace[1].method = "oEmbed"
    /\ trace[1].outcome.kind = "result"
    /\ trace[1].outcome.result.title = "Video A"
    /\ trace[2].method = "Mobile"

---------------------------------------------------------------------------
(* extract_video_info *)

\* get_youtube_info as a function of what its strategies produce: outs[i]
\* is the outcome of the i-th method; the result is the value returned
\* together with the outcomes of the methods that were invoked
RECURSIVE RunMethods(_, _, _, _)
RunMethods(i, best, seen, outs) ==
    IF i > Len(methods) THEN [trace |-> seen, value |-> best]
    ELSE LET o == outs[i]
             now == Append(seen, [method |-> methods[i], outcome |-> o])
         IN  IF o.kind = "raised" THEN RunMethods(i + 1, best, now, outs)
             ELSE LET p == ProcessResult(best, o.result)
                  IN  IF p.return THEN [trace |-> now, value |-> p.value]
                      ELSE RunMethods(i + 1, p.best_result, now, outs)

\* the titles and descriptions the pages of a request carry
PageTitles == {"Title not found", "Video A"}
PageDescs  == {"Description not found", "Desc A"}

OEmbedResults ==
    {r \in {get_youtube_info_oembed(reply) : reply \in OEmbedReplies} :
        r.title \in PageTitles}
MobileResults ==
    {get_youtube_info_mobile(f, t, d) :
        f \in FetchKinds, t \in MobileTitleSet \cap PageTitles,
        d \in MobileDescSet \cap PageDescs}
StandardResults ==
    {get_youtube_info_standard(f, t, d) :
        f \in FetchKinds, t \in StandardTitleSet \cap PageTitles,
        d \in StandardDescSet \cap PageDescs}

\* the runs of get_youtube_info(video_url)
InfoRuns ==
    {RunMethods(1, InitialBest, <<>>, <<Result(a), Result(b), Result(c)>>) :
        a \in OEmbedResults, b \in MobileResults, c \in StandardResults}

\* bodies of the POST: no JSON, no url, a url that is not a string, a URL
NoUrl == [absent |-> TRUE]
NotAString == [number |-> 5]
RequestUrls ==
    {[host |-> "youtu.be", path |-> <<"ABC">>, query |-> <<>>],
     [host |-> "youtu.be", path |-> <<>>, query |-> <<>>],
     [host |-> "www.youtube.com", path |-> <<"watch">>, query |-> <<>>],
     [host |-> "example.com", path |-> <<"watch">>, query |-> <<>>]}
Requests ==
    {[json |-> FALSE]}
    \cup [json : {TRUE}, url : RequestUrls \cup {NoUrl, NotAString}]

\* 'youtube.com' in video_url or 'youtu.be' in video_url, on RequestUrls
IsYoutubeUrl(url) == url.host \in {"youtu.be", "www.youtube.com", "youtube.com"}

\* the pages get_youtube_tags may see during a request
RequestTagPages == [1..TagPatterns -> {NoArray, <<"a", "b">>}]

thumbnail_qualities_LowestFirst ==
    <<"default", "mqdefault", "hqdefault", "maxresdefault">>

\* the file names of thumbnail_urls, in the order of the list
thumbnail_qualities == <<"maxresdefault", "hqdefault", "mqdefault", "default">>

\* f"https://img.youtube.com/vi/{video_id}/{quality}.jpg"
ThumbnailUrl(id, quality) == [none |-> FALSE, id |-> id, quality |-> quality]

\* what requests.head(url, timeout=5) can do
HeadOutcomes == {[kind |-> "response", status |-> 200],
                 [kind |-> "response", status |-> 404],
                 [kind |-> "error"]}

\* `if video_id:`
Truthy(v) == v # None /\ v.text # <<>>

BuildResult_BlankWithoutTags(i, id, t, thumb) ==
    [title |-> IF t = <<>> THEN "Title not found" ELSE i.title,
     description |-> IF t = <<>> THEN "Description not found" ELSE i.description,
     tags |-> t,
     thumbnail |-> thumb,
     video_id |-> id,
     extraction_success |->
        [title |-> i.title \notin {"Title not found", "Error", "All methods failed"},
         description |-> i.description \notin
            {"Description not found", "Error", "Description not available from oEmbed"},
         tags |-> Len(t) > 0,
         thumbnail |-> thumb # None]]

\* the dictionary `result`
BuildResult(i, id, t, thumb) ==
    [title |-> i.title,
     description |-> i.description,
     tags |-> t,
     thumbnail |-> thumb,
     video_id |-> id,
     extraction_success |->
        [title |-> i.title \notin {"Title not found", "Error", "All methods failed"},
         description |-> i.description \notin
            {"Description not found", "Error", "Description not available from oEmbed"},
         tags |-> Len(t) > 0,
         thumbnail |-> thumb # None]]

Answer(status, body) == [kind |-> "return", status |-> status, body |-> body]

\* the POST arrives and is validated
ReceiveRequest ==
    /\ epc = "idle"
    /\ \E r \in Requests :
          /\ request' = r
          /\ IF ~r.json
             THEN /\ http_response' = Answer(400, [error |-> "Invalid JSON data"])
                  /\ epc' = "done"
             ELSE IF r.url = NoUrl
             THEN /\ http_response' = Answer(400, [error |-> "No URL provided"])
                  /\ epc' = "done"
             ELSE IF r.url = NotAString
             \* the `in` test raises TypeError; the handler of the function answers
             THEN /\ http_response' = Answer(500, [error |-> "TypeError"])
                  /\ epc' = "done"
             ELSE IF ~IsYoutubeUrl(r.url)
             THEN /\ http_response' = Answer(400, [error |-> "Invalid YouTube URL"])
                  /\ epc' = "done"
             ELSE /\ epc' = "info"
                  /\ UNCHANGED http_response
    /\ UNCHANGED <<info_trace, info, video_id, tags, tags_failed, heads, thumbnail_url>>
    /\ UNCHANGED <<fvars, ovars, xvars, rvars>>

\* info = get_youtube_info(video_url); video_id = get_video_id_from_url(video_url)
GetInfo ==
    /\ epc = "info"
    /\ \E run \in InfoRuns :
          /\ info_trace' = run.trace
          /\ info' = run.value
    /\ video_id' = get_video_id_from_url(request.url)
    /\ epc' = "tags"
    /\ UNCHANGED <<request, tags, tags_failed, heads, thumbnail_url, http_response>>
    /\ UNCHANGED <<fvars, ovars, xvars, rvars>>

\* tags = get_youtube_tags(video_url)
GetTags ==
    /\ epc = "tags"
    /\ \E f \in TagFetchKinds, page \in RequestTagPages :
          /\ tags' = get_youtube_tags(f, page)
          /\ tags_failed' = (f # "return")
    /\ epc' = "thumbnail"
    /\ UNCHANGED <<request, info_trace, info, video_id, heads, thumbnail_url,
                   http_response>>
    /\ UNCHANGED <<fvars, ovars, xvars, rvars>>

\* one iteration of `for url in thumbnail_urls`
CheckThumbnail ==
    /\ epc = "thumbnail"
    /\ Truthy(video_id)
    /\ Len(heads) < Len(thumbnail_qualities)
    /\ LET url == ThumbnailUrl(video_id.text, thumbnail_qualities[Len(heads) + 1])
       IN  \E out \in HeadOutcomes :
              /\ heads' = Append(heads, [url |-> url, out |-> out])
              /\ IF out.kind = "response" /\ out.status = 200
                 THEN thumbnail_url' = url /\ epc' = "respond"
                 ELSE UNCHANGED <<thumbnail_url, epc>>
    /\ UNCHANGED <<request, info_trace, info, video_id, tags, tags_failed,
                   http_response>>
    /\ UNCHANGED <<fvars, ovars, xvars, rvars>>

\* video_id is falsy, or the list of candidates is used up
LeaveThumbnails ==
    /\ epc = "thumbnail"
    /\ ~Truthy(video_id) \/ Len(heads) = Len(thumbnail_qualities)
    /\ epc' = "respond"
    /\ UNCHANGED <<request, info_trace, info, video_id, tags, tags_failed, heads,
                   thumbnail_url, http_response>>
    /\ UNCHANGED <<fvars, ovars, xvars, rvars>>

\* return jsonify(result)
Respond ==
    /\ epc = "respond"
    /\ http_response' = Answer(200, BuildResult(info, video_id, tags, thumbnail_url))
    /\ epc' = "done"
    /\ UNCHANGED <<request, info_trace, info, video_id, tags, tags_failed, heads,
                   thumbnail_url>>
    /\ UNCHANGED <<fvars, ovars, xvars, rvars>>

NextExtract ==
    \/ ReceiveRequest
    \/ GetInfo
    \/ GetTags
    \/ CheckThumbnail
    \/ LeaveThumbnails
    \/ Respond

SpecExtract == Init /\ [][NextExtract]_vars

---------------------------------------------------------------------------
(* Properties of extract_video_info, checked under SpecExtract *)

\* the request passed validation and the handler has answered it
Answered == epc = "done" /\ http_response.status = 200

\* C13: when tag extraction fails, the response still carries the title and
\* the description get_youtube_info returned, and its tag list is empty
C13_TagFailureLeavesInfo ==
    (Answered /\ tags_failed) =>
        /\ http_response.body.tags = <<>>
        /\ \E run \in InfoRuns :
              /\ run.trace = info_trace
              /\ http_response.body.title = run.value.title
              /\ http_response.body.description = run.value.description
        /\ http_response.body.video_id = get_video_id_from_url(request.url)

C13_Witness ==
    /\ Answered
    /\ tags_failed
    /\ http_response.body.tags = <<>>
    /\ http_response.body.title = "Video A"
    /\ http_response.body.description = "Desc A"

IsOk(head) == head.out.kind = "response" /\ head.out.status = 200

\* C14: the thumbnail candidates are checked in the order maxresdefault,
\* hqdefault, mqdefault, default; the first one answering 200 becomes the
\* thumbnail and nothing is checked after it; an error or another status
\* moves on to the next; with no 200, or without an identifier (and then
\* without any check), the thumbnail stays unset
C14_FirstReachableThumbnail ==
    LET order == <<"maxresdefault", "hqdefault", "mqdefault", "default">>
        finished == epc \in {"respond", "done"} /\ info_trace # <<>>
    IN  /\ Len(heads) <= Len(order)
        /\ \A k \in 1..Len(heads) :
              /\ heads[k].url = ThumbnailUrl(video_id.text, order[k])
              /\ IsOk(heads[k]) => k = Len(heads) /\ thumbnail_url = heads[k].url
        /\ (\A k \in 1..Len(heads) : ~IsOk(heads[k])) => thumbnail_url = None
        /\ heads # <<>> => Truthy(video_id)
        /\ (finished /\ Truthy(video_id) /\ thumbnail_url = None) =>
              Len(heads) = Len(order)
        /\ Answered => http_response.body.thumbnail = thumbnail_url

C14_Witness ==
    /\ Answered
    /\ Len(heads) = 3
    /\ heads[1].out.kind = "error"
    /\ heads[2].out = [kind |-> "response", status |-> 404]
    /\ IsOk(heads[3])
    /\ http_response.body.thumbnail = ThumbnailUrl(<<"ABC">>, "mqdefault")

\* C20: extraction_success.description is true only if some strategy
\* supplied a description that is not a failure sentinel
C20_DescriptionFlagMeansExtracted ==
    (Answered /\ http_response.body.extraction_success.description) =>
        \E k \in 1..Len(info_trace) : HasDescription(info_trace[k].outcome)

---------------------------------------------------------------------------
(* Safety of the title in get_youtube_info, checked under Spec *)

\* C21: if some invoked strategy returned a non-sentinel title, the record
\* the call returns has a non-sentinel title, whatever the later strategies
\* returned or raised
C21_TitleNeverLost ==
    (pc = "done" /\ \E k \in 1..Len(trace) : HasTitle(trace[k].outcome)) =>
        /\ returned.kind = "return"
        /\ returned.value.title \notin TitleFailures

\* oEmbed gave a title, Mobile raised, Standard found nothing
C21_Witness ==
    /\ pc = "done"
    /\ Len(trace) = 3
    /\ HasTitle(trace[1].outcome)
    /\ trace[2].outcome = Raised
    /\ IsNoSignal(trace[3].outcome)
    /\ returned.value.title = trace[1].outcome.result.title

---------------------------------------------------------------------------
(* rate_limit_check *)

MaxRateCalls == 7

\* the defaults of the parameters limit and window
DefaultLimit == 5
DefaultWindow == 60

\* by how much time.time() may have advanced since the previous call
TimeSteps == {0, 1, DefaultWindow - 1}

\* [req_time for req_time in request_counts[ip] if now - req_time < window]
Recent(times, now, window) == SelectSeq(times, LAMBDA req_time : now - req_time < window)

rate_limit_check_OffByOne(counts, ip, now, limit, window) ==
    LET kept == Recent(counts[ip], now, window)
    IN  IF Len(kept) > limit
        THEN [value |-> FALSE, request_counts |-> [counts EXCEPT ![ip] = kept]]
        ELSE [value |-> TRUE,
              request_counts |-> [counts EXCEPT ![ip] = Append(kept, now)]]

\* the value returned and request_counts after the call
rate_limit_check(counts, ip, now, limit, window) ==
    LET kept == Recent(counts[ip], now, window)
    IN  IF Len(kept) >= limit
        THEN [value |-> FALSE, request_counts |-> [counts EXCEPT ![ip] = kept]]
        ELSE [value |-> TRUE,
              request_counts |-> [counts EXCEPT ![ip] = Append(kept, now)]]

\* one call rate_limit_check(ip), as limit_remote_addr makes it
CallRateLimit ==
    /\ rate_calls < MaxRateCalls
    /\ \E ip \in IPs, step \in TimeSteps :
          LET now == clock + step
              r == rate_limit_check(request_counts, ip, now, DefaultLimit,
                                    DefaultWindow)
          IN  /\ clock' = now
              /\ request_counts' = r.request_counts
              /\ admitted' = IF r.value
                             THEN [admitted EXCEPT ![ip] = Append(@, now)]
                             ELSE admitted
              /\ rate_ret' = [kind |-> "return", ip |-> ip, now |-> now,
                              value |-> r.value, before |-> request_counts]
    /\ rate_calls' = rate_calls + 1
    /\ UNCHANGED <<fvars, ovars, xvars, evars>>

SpecRate == Init /\ [][CallRateLimit]_vars

\* the number of entries of times that lie in [from, from + length)
CountIn(times, from, length) ==
    Len(SelectSeq(times, LAMBDA t : t >= from /\ t < from + length))

\* C22: for every IP at most `limit` admitted calls fall into any window of
\* `window` seconds; a rejected call records no timestamp; a call changes
\* nothing of another IP, and its outcome follows from the admitted calls
\* of its own IP alone
C22_RateLimit ==
    /\ \A ip \in IPs : \A k \in 1..Len(admitted[ip]) :
          CountIn(admitted[ip], admitted[ip][k], DefaultWindow) <= DefaultLimit
    /\ rate_ret # NotCalled =>
          /\ ~rate_ret.value =>
                /\ request_counts[rate_ret.ip] =
                      Recent(rate_ret.before[rate_ret.ip], rate_ret.now, DefaultWindow)
                /\ Len(request_counts[rate_ret.ip]) = DefaultLimit
          /\ \A other \in IPs \ {rate_ret.ip} :
                request_counts[other] = rate_ret.before[other]
          /\ LET own == IF rate_ret.value
                        THEN SubSeq(admitted[rate_ret.ip], 1,
                                    Len(admitted[rate_ret.ip]) - 1)
                        ELSE admitted[rate_ret.ip]
             IN  rate_ret.value =
                    (Len(Recent(own, rate_ret.now, DefaultWindow)) < DefaultLimit)

\* one IP was rejected at its sixth call and admitted again once the window
\* had passed
C22_Witness ==
    \E ip \in IPs :
        /\ Len(admitted[ip]) = DefaultLimit + 1
        /\ rate_calls = DefaultLimit + 2
        /\ rate_ret.ip = ip /\ rate_ret.value

---------------------------------------------------------------------------
(* Termination of make_request_with_retry, checked under SpecFetchLive *)

Ended == fpc = "done" /\ fetched.kind \in {"return", "raise"}

\* C23: a call never issues more than max_retries requests, a call that
\* has ended has returned a response or raised a failure, and every call
\* that has begun ends
C23_Terminates ==
    /\ [](Len(Gets) <= max_retries)
    /\ [](fpc = "done" => Ended)
    /\ (fpc = "loop") ~> Ended

\* every request of the budget was answered by a status that is neither
\* retried nor raised, and the statement after the loop ended the call
C23_Witness ==
    /\ Ended
    /\ fetched = AllFailed
    /\ Len(Gets) = max_retries
    /\ max_retries = DefaultMaxRetries

====
